---- MODULE Spec2Model ----
(***************************************************************************)
(* Model of the image converter service (src/main.py): three FastAPI       *)
(* endpoints, POST /resize, /crop-square and /crop, each checking the      *)
(* upload's declared content type, reading the upload, decoding it with    *)
(* Pillow, flattening an alpha channel onto white, transforming, encoding  *)
(* as WEBP and answering.                                                  *)
(*                                                                         *)
(* A request is handled by one coroutine; its only suspension point is     *)
(* `await file.read()`, so a handler is two atomic steps: the part up to   *)
(* the await (the content type check) and the part after it (decode ...    *)
(* response).  Requests share nothing but the process-wide logging module. *)
(***************************************************************************)
EXTENDS Integers, Sequences, FiniteSets, TLC

(***************************************************************************)
(* Bounds of the model.                                                    *)
(***************************************************************************)
\* Number of requests handled concurrently under Spec.
NumReqs == 2
\* Largest image width and height of the single-request specification
\* SpecOne (widths 1..MaxWidth, heights 1..MaxHeight).
MaxWidth == 11
MaxHeight == 15
\* Largest image side of the images that vary in colour mode and pixel.
SmallDim == 2

(***************************************************************************)
(* Program constants.                                                      *)
(***************************************************************************)
\* max_width: int = 800
DefaultMaxWidth == 800
\* quality: int = 85
DefaultQuality == 85
\* The white of the background, (255, 255, 255): also the full alpha.
White == 255

Reqs == 1..NumReqs

(***************************************************************************)
(* Strings the code inspects are sequences of characters, so that          *)
(* str.startswith is computed and not assumed.                             *)
(***************************************************************************)
ImagePrefix == <<"i", "m", "a", "g", "e", "/">>
TextPlain == <<"t", "e", "x", "t", "/", "p", "l", "a", "i", "n">>
ImagePng == <<"i", "m", "a", "g", "e", "/", "p", "n", "g">>
ImageNoSlash == <<"i", "m", "a", "g", "e">>
TextImage == <<"t", "e", "x", "t", "/", "i", "m", "a", "g", "e", "/">>

\* file.content_type: None, or a string.
NoContentType == [isNone |-> TRUE, text |-> <<>>]
ContentType(s) == [isNone |-> FALSE, text |-> s]

startswith(s, prefix) ==
    /\ Len(s) >= Len(prefix)
    /\ SubSeq(s, 1, Len(prefix)) = prefix

\* A plausible slip: the prefix compared without its slash.
AcceptedNoSlash(ct) ==
    ~(ct.isNone \/ ~startswith(ct.text, ImageNoSlash))

\* not (file.content_type is None or not file.content_type.startswith("image/"))
Accepted(ct) ==
    ~(ct.isNone \/ ~startswith(ct.text, ImagePrefix))

(***************************************************************************)
(* Python float arithmetic (IEEE 754 binary64, round to nearest even) on   *)
(* the small positive integers the resize uses.  A positive double is      *)
(* (top * 2^52 + F) * 2^(e - 52), F being 52 bits held as four 13-bit      *)
(* limbs, most significant first.                                          *)
(***************************************************************************)
LimbBits == 13
LimbBase == 8192
NumLimbs == 4

RECURSIVE Pow2(_)
Pow2(n) == IF n = 0 THEN 1 ELSE 2 * Pow2(n - 1)

RECURSIVE ExpUp(_, _)
ExpUp(n, d) == IF n >= 2 * d THEN 1 + ExpUp(n, 2 * d) ELSE 0

RECURSIVE ExpDown(_, _)
ExpDown(n, d) == IF n < d THEN 1 + ExpDown(2 * n, d) ELSE 0

RECURSIVE BitLen(_)
BitLen(n) == IF n = 0 THEN 0 ELSE 1 + BitLen(n \div 2)

RECURSIVE AddLimbs(_, _)
AddLimbs(f, c) ==
    IF f = <<>> THEN [f |-> <<>>, carry |-> c]
    ELSE LET k == Len(f)
             t == f[k] + c
             r == AddLimbs(SubSeq(f, 1, k - 1), t \div LimbBase)
         IN [f |-> r.f \o <<t % LimbBase>>, carry |-> r.carry]

RECURSIVE MulLimbs(_, _, _)
MulLimbs(f, n, c) ==
    IF f = <<>> THEN [f |-> <<>>, carry |-> c]
    ELSE LET k == Len(f)
             t == f[k] * n + c
             r == MulLimbs(SubSeq(f, 1, k - 1), n, t \div LimbBase)
         IN [f |-> r.f \o <<t % LimbBase>>, carry |-> r.carry]

RECURSIVE DivLimbs(_, _, _)
DivLimbs(r, d, k) ==
    IF k = 0 THEN [f |-> <<>>, rem |-> r]
    ELSE LET t == r * LimbBase
             rest == DivLimbs(t % d, d, k - 1)
         IN [f |-> <<t \div d>> \o rest.f, rem |-> rest.rem]

\* Round (top, f) to 53 significant bits, dropping its s low bits: ties to even.
RoundLimbs(top, f, s, e) ==
    LET k == Len(f)
        unit == Pow2(s)
        dropped == f[k] % unit
        odd == IF s < LimbBits THEN (f[k] \div unit) % 2 = 1
               ELSE (IF k > 1 THEN f[k - 1] ELSE top) % 2 = 1
        up == s >= 1 /\ (2 * dropped > unit \/ (2 * dropped = unit /\ odd))
        cut == SubSeq(f, 1, k - 1) \o <<f[k] - dropped>>
        r == AddLimbs(cut, IF up THEN unit ELSE 0)
    IN [top |-> top + r.carry, f |-> r.f, e |-> e]

\* n / d for integers n, d >= 1: the double nearest to the quotient.
fdiv(n, d) ==
    LET e == IF n >= d THEN ExpUp(n, d) ELSE -ExpDown(n, d)
        n0 == IF e < 0 THEN n * Pow2(-e) ELSE n
        d0 == IF e > 0 THEN d * Pow2(e) ELSE d
        q == DivLimbs(n0 - d0, d0, NumLimbs)
        up == 2 * q.rem > d0 \/ (2 * q.rem = d0 /\ q.f[NumLimbs] % 2 = 1)
        r == AddLimbs(q.f, IF up THEN 1 ELSE 0)
    IN IF r.carry = 1 THEN [top |-> 1, f |-> r.f, e |-> e + 1]
       ELSE [top |-> 1, f |-> r.f, e |-> e]

\* n * x for an integer n >= 1 and a double x: the double nearest to the product.
fmul(n, x) ==
    LET p == MulLimbs(x.f, n, 0)
        top == n * x.top + p.carry
    IN RoundLimbs(top, p.f, BitLen(top) - 1, x.e)

\* int(x) for a positive double x: truncation.
ftrunc(x) ==
    IF x.e >= 0 THEN x.top * Pow2(x.e) + x.f[1] \div Pow2(LimbBits - x.e)
    ELSE x.top \div Pow2(-x.e)

\* int(n * x), n any integer: the sign is exact, int() truncates toward zero.
IntOfProduct(n, x) ==
    IF n = 0 THEN 0
    ELSE IF n > 0 THEN ftrunc(fmul(n, x))
    ELSE -ftrunc(fmul(-n, x))

Min(a, b) == IF a <= b THEN a ELSE b

(***************************************************************************)
(* Decoded images: a colour mode, a size, and the value of the image's     *)
(* pixels (one tuple of band values: the images of the model are of one    *)
(* colour).                                                                *)
(***************************************************************************)
Image(mode, w, h, px) == [mode |-> mode, w |-> w, h |-> h, px |-> px]

\* The modes Image.open gives an upload: PNG gives L, LA, P, RGB, RGBA; a
\* TIFF with a palette and an alpha sample gives PA.
Modes == {"L", "LA", "P", "PA", "RGB", "RGBA"}

\* An upload: bytes that decode to an image, or that do not decode.
ValidUpload(img) == [valid |-> TRUE, img |-> img]
CorruptUpload == [valid |-> FALSE, img |-> Image("RGB", 1, 1, <<0, 0, 0>>)]

Ok(v) == [ok |-> TRUE, val |-> <<v>>, err |-> ""]
Raise(msg) == [ok |-> FALSE, val |-> <<>>, err |-> msg]

\* Image.open(BytesIO(image_data))
Decode(upload) ==
    IF upload.valid THEN Ok(upload.img)
    ELSE Raise("cannot identify image file")

\* Pillow's paste through a mask, per band: out * (255 - mask) + in * mask,
\* divided by 255 with rounding.
Blend(mask, bg, fg) ==
    LET t == bg * (White - mask) + fg * mask + 128
    IN ((t \div 256) + t) \div 256

\* The bands an RGB paste reads from an RGBA or LA image.
ColourOf(img) ==
    IF img.mode = "LA" THEN <<img.px[1], img.px[1], img.px[1]>>
    ELSE <<img.px[1], img.px[2], img.px[3]>>

\* img.getchannel("A"): the last band.
AlphaOf(img) == img.px[Len(img.px)]

\* background = Image.new("RGB", img.size, (255, 255, 255))
\* background.paste(img, mask=img.getchannel("A"))
Composite(img) ==
    LET c == ColourOf(img)
        a == AlphaOf(img)
    IN Image("RGB", img.w, img.h,
             <<Blend(a, White, c[1]), Blend(a, White, c[2]), Blend(a, White, c[3])>>)

\* A plausible slip: the pixels blended with white in place, the image
\* keeping its mode and its alpha band.
FlattenKeepsAlpha(img) ==
    IF img.mode \in {"RGBA", "LA"}
    THEN LET a == AlphaOf(img)
             n == Len(img.px) - 1
         IN Image(img.mode, img.w, img.h,
                  [i \in 1..n |-> Blend(a, White, img.px[i])] \o <<a>>)
    ELSE img

\* if img.mode in ("RGBA", "LA"): ...; img = background
Flatten(img) ==
    IF img.mode \in {"RGBA", "LA"} THEN Composite(img) ELSE img

\* A plausible slip: the height rounded to the nearest integer.
NewHeightRounded(img, new_width) ==
    (2 * new_width * img.h + img.w) \div (2 * img.w)

\* aspect_ratio = img.size[1] / img.size[0]
\* new_height = int(new_width * aspect_ratio)
NewHeight(img, new_width) == IntOfProduct(new_width, fdiv(img.h, img.w))

\* new_width = min(max_width, img.size[0])
NewWidth(img, max_width) == Min(max_width, img.w)

\* A plausible slip: a size below one pixel clamped instead of refused.
ResizeClamped(img, size) ==
    Ok(Image(img.mode, IF size[1] < 1 THEN 1 ELSE size[1],
             IF size[2] < 1 THEN 1 ELSE size[2], img.px))

\* img.resize((new_width, new_height), LANCZOS): Pillow refuses a size
\* below one pixel.
Resize(img, size) ==
    IF size[1] < 1 \/ size[2] < 1 THEN Raise("height and width must be > 0")
    ELSE Ok(Image(img.mode, size[1], size[2], img.px))

\* round(x) of a float given in halves (x = c / 2): ties to even.
RoundHalves(c) ==
    LET q == c \div 2
    IN IF c % 2 = 0 THEN q
       ELSE IF q % 2 = 0 THEN q ELSE q + 1

Black(px) == [i \in 1..Len(px) |-> 0]

\* img.crop(box), the box in halves of a pixel: Pillow refuses a box whose
\* right is left of its left or whose lower is above its upper, rounds the
\* coordinates, and fills what lies outside the image with zeros.
Crop(img, box) ==
    IF box[3] < box[1] THEN Raise("Coordinate 'right' is less than 'left'")
    ELSE IF box[4] < box[2] THEN Raise("Coordinate 'lower' is less than 'upper'")
    ELSE LET x0 == RoundHalves(box[1])
             y0 == RoundHalves(box[2])
             x1 == RoundHalves(box[3])
             y1 == RoundHalves(box[4])
             inside == x0 < img.w /\ x1 > 0 /\ y0 < img.h /\ y1 > 0
         IN Ok(Image(img.mode, x1 - x0, y1 - y0,
                     IF inside THEN img.px ELSE Black(img.px)))

\* An integer box as img.crop receives it.
Halves(box) == [i \in 1..4 |-> 2 * box[i]]

\* A plausible slip: the crop anchored at the far edge, not centred.
CropSquareBoxFarEdge(img) ==
    LET crop_size == Min(img.w, img.h)
        left == img.w - crop_size
        top == img.h - crop_size
    IN <<left, top, left + crop_size, top + crop_size>>

\* crop_size = min(img.size); left = (w - crop_size) // 2; top likewise;
\* right = left + crop_size; bottom = top + crop_size
CropSquareBox(img) ==
    LET crop_size == Min(img.w, img.h)
        left == (img.w - crop_size) \div 2
        top == (img.h - crop_size) \div 2
    IN <<left, top, left + crop_size, top + crop_size>>

\* image.save(output_buffer, format=..., quality=..., optimize=True): the
\* encoder refuses an image with no pixels.
Save(img, format, quality) ==
    IF img.w < 1 \/ img.h < 1
    THEN Raise("cannot write file as WebP (encoder returned None)")
    ELSE Ok([format |-> format, quality |-> quality, optimize |-> TRUE, img |-> img])

(***************************************************************************)
(* What one run of a handler's processing leaves behind: whether it        *)
(* returned, the steps it took in order, what it logged, the exception it  *)
(* caught, and the images and bytes it built.                              *)
(***************************************************************************)
NoRun == [handed |-> <<>>, box |-> <<>>, out |-> <<>>, encoded |-> <<>>, exc |-> <<>>]

\* logging.error(f"Image processing failed: {str(e)}")
LogEntry(msg) == [level |-> "ERROR", prefix |-> "Image processing failed: ", msg |-> msg]

Returned(steps, handed, box, out, encoded) ==
    [ok |-> TRUE, detail |-> "", ev |-> steps, logged |-> <<>>,
     run |-> [handed |-> handed, box |-> box, out |-> <<out>>,
              encoded |-> <<encoded>>, exc |-> <<>>]]

\* except Exception as e: [logging.error(...)]; raise HTTPException(400, str(e))
Caught(msg, steps, logs, handed, box, out) ==
    [ok |-> FALSE, detail |-> msg,
     ev |-> steps \o <<"raise">> \o (IF logs THEN <<"log">> ELSE <<>>),
     logged |-> IF logs THEN <<LogEntry(msg)>> ELSE <<>>,
     run |-> [handed |-> handed, box |-> box, out |-> out,
              encoded |-> <<>>, exc |-> <<msg>>]]

\* The body of resize_in_memory: its try block and its except clause.
resize_in_memory(image_data, max_width, quality, output_format) ==
    LET dec == Decode(image_data)
    IN IF ~dec.ok THEN Caught(dec.err, <<"decode">>, TRUE, <<>>, <<>>, <<>>)
       ELSE
       LET img == Flatten(dec.val[1])
           new_width == NewWidth(img, max_width)
           new_height == NewHeight(img, new_width)
           resized == Resize(img, <<new_width, new_height>>)
       IN IF ~resized.ok
          THEN Caught(resized.err, <<"decode", "flatten", "transform">>,
                      TRUE, <<img>>, <<>>, <<>>)
          ELSE
          LET saved == Save(resized.val[1], output_format, quality)
          IN IF ~saved.ok
             THEN Caught(saved.err, <<"decode", "flatten", "transform", "encode">>,
                         TRUE, <<img>>, <<>>, resized.val)
             ELSE Returned(<<"decode", "flatten", "transform", "encode">>,
                           <<img>>, <<>>, resized.val[1], saved.val[1])

\* The try block and the except clause of crop_square, after the read.
crop_square_try(contents, quality) ==
    LET dec == Decode(contents)
    IN IF ~dec.ok THEN Caught(dec.err, <<"decode">>, TRUE, <<>>, <<>>, <<>>)
       ELSE
       LET img == Flatten(dec.val[1])
           box == CropSquareBox(img)
           cropped == Crop(img, Halves(box))
       IN IF ~cropped.ok
          THEN Caught(cropped.err, <<"decode", "flatten", "transform">>,
                      TRUE, <<img>>, <<box>>, <<>>)
          ELSE
          LET saved == Save(cropped.val[1], "WEBP", quality)
          IN IF ~saved.ok
             THEN Caught(saved.err, <<"decode", "flatten", "transform", "encode">>,
                         TRUE, <<img>>, <<box>>, cropped.val)
             ELSE Returned(<<"decode", "flatten", "transform", "encode">>,
                           <<img>>, <<box>>, cropped.val[1], saved.val[1])

\* The try block and the except clause of crop, after the read: the except
\* clause does not log.
crop_try(contents, box, quality) ==
    LET dec == Decode(contents)
    IN IF ~dec.ok THEN Caught(dec.err, <<"decode">>, FALSE, <<>>, <<>>, <<>>)
       ELSE
       LET img == Flatten(dec.val[1])
           cropped == Crop(img, box)
       IN IF ~cropped.ok
          THEN Caught(cropped.err, <<"decode", "flatten", "transform">>,
                      FALSE, <<img>>, <<box>>, <<>>)
          ELSE
          LET saved == Save(cropped.val[1], "WEBP", quality)
          IN IF ~saved.ok
             THEN Caught(saved.err, <<"decode", "flatten", "transform", "encode">>,
                         FALSE, <<img>>, <<box>>, cropped.val)
             ELSE Returned(<<"decode", "flatten", "transform", "encode">>,
                           <<img>>, <<box>>, cropped.val[1], saved.val[1])

(***************************************************************************)
(* Responses as FastAPI sends them.                                        *)
(***************************************************************************)
\* raise HTTPException(status_code=..., detail=...)
HTTPException(status_code, detail) ==
    [status |-> status_code, detail |-> detail, content |-> <<>>,
     media_type |-> "application/json"]

\* return Response(content=..., media_type=...)
Response(content, media_type) ==
    [status |-> 200, detail |-> "", content |-> <<content>>, media_type |-> media_type]

\* A handler that ends without a return statement returns None, which
\* FastAPI sends as 200 with the JSON body null.
NoneResponse ==
    [status |-> 200, detail |-> "", content |-> <<>>, media_type |-> "application/json"]

(***************************************************************************)
(* State.                                                                  *)
(***************************************************************************)
VARIABLES
    req,    \* req[r]: <<>> or <<the request>>: endpoint, upload, parameters
    pc,     \* pc[r]: "idle", "handler", "reading" (at await file.read()), "done"
    ev,     \* ev[r]: what the request did, in order
    run,    \* run[r]: the images, bytes and exception of its processing
    resp,   \* resp[r]: the responses sent for it, in order
    log     \* the process-wide log

vars == <<req, pc, ev, run, resp, log>>

Init ==
    /\ req = [r \in Reqs |-> <<>>]
    /\ pc = [r \in Reqs |-> "idle"]
    /\ ev = [r \in Reqs |-> <<>>]
    /\ run = [r \in Reqs |-> NoRun]
    /\ resp = [r \in Reqs |-> <<>>]
    /\ log = <<>>

\* The server routes a request to its endpoint's handler.
Arrive(r, q) ==
    /\ pc[r] = "idle"
    /\ req' = [req EXCEPT ![r] = <<q>>]
    /\ pc' = [pc EXCEPT ![r] = "handler"]
    /\ UNCHANGED <<ev, run, resp, log>>

\* if file.content_type is None or not file.content_type.startswith("image/"):
\*     raise HTTPException(status_code=400, detail="File must be an image")
\* ... await file.read()
CheckContentType(r) ==
    IF Accepted(req[r][1].content_type)
    THEN /\ pc' = [pc EXCEPT ![r] = "reading"]
         /\ UNCHANGED <<req, ev, run, resp, log>>
    ELSE /\ pc' = [pc EXCEPT ![r] = "done"]
         /\ ev' = [ev EXCEPT ![r] = @ \o <<"respond">>]
         /\ resp' = [resp EXCEPT ![r] = @ \o <<HTTPException(400, "File must be an image")>>]
         /\ UNCHANGED <<req, run, log>>

\* A plausible slip: a failed attempt tried again instead of answered.
FinishRetrying(r, res, answer) ==
    IF res.ok
    THEN /\ pc' = [pc EXCEPT ![r] = "done"]
         /\ ev' = [ev EXCEPT ![r] = @ \o <<"read">> \o res.ev \o <<"respond">>]
         /\ run' = [run EXCEPT ![r] = res.run]
         /\ resp' = [resp EXCEPT ![r] = @ \o <<answer>>]
         /\ UNCHANGED <<req, log>>
    ELSE /\ Len(ev[r]) < 12
         /\ ev' = [ev EXCEPT ![r] = @ \o <<"read">> \o res.ev]
         /\ log' = log \o res.logged
         /\ UNCHANGED <<req, pc, run, resp>>

\* The read completes and the rest of the handler runs to its response.
Finish(r, res, answer) ==
    /\ pc' = [pc EXCEPT ![r] = "done"]
    /\ ev' = [ev EXCEPT ![r] = @ \o <<"read">> \o res.ev \o <<"respond">>]
    /\ run' = [run EXCEPT ![r] = res.run]
    /\ log' = log \o res.logged
    /\ resp' = [resp EXCEPT ![r] = @ \o <<answer>>]
    /\ UNCHANGED req

resize_image(r) ==
    /\ pc[r] = "handler"
    /\ req[r][1].endpoint = "/resize"
    /\ CheckContentType(r)

resize_image_resume(r) ==
    /\ pc[r] = "reading"
    /\ req[r][1].endpoint = "/resize"
    /\ LET q == req[r][1]
           res == resize_in_memory(q.upload, q.max_width, q.quality, "WEBP")
       IN Finish(r, res,
                 IF res.ok THEN Response(res.run.encoded[1], "image/webp")
                 ELSE HTTPException(400, res.detail))

crop_square(r) ==
    /\ pc[r] = "handler"
    /\ req[r][1].endpoint = "/crop-square"
    /\ CheckContentType(r)

crop_square_resume(r) ==
    /\ pc[r] = "reading"
    /\ req[r][1].endpoint = "/crop-square"
    /\ LET q == req[r][1]
           res == crop_square_try(q.upload, q.quality)
       IN Finish(r, res,
                 IF res.ok THEN Response(res.run.encoded[1], "image/webp")
                 ELSE HTTPException(400, res.detail))

crop(r) ==
    /\ pc[r] = "handler"
    /\ req[r][1].endpoint = "/crop"
    /\ CheckContentType(r)

crop_resume(r) ==
    /\ pc[r] = "reading"
    /\ req[r][1].endpoint = "/crop"
    /\ LET q == req[r][1]
           res == crop_try(q.upload, q.box, q.quality)
       IN Finish(r, res,
                 IF res.ok THEN NoneResponse
                 ELSE HTTPException(400, res.detail))

(***************************************************************************)
(* The requests of the model.                                              *)
(***************************************************************************)
Alphas == {0, 128, White}

\* The pixel values of the images of each mode.
Pixels(mode) ==
    CASE mode = "RGB" -> {<<10, 20, 30>>, <<White, 0, 0>>}
      [] mode = "RGBA" -> {<<10, 20, 30, a>> : a \in Alphas}
      [] mode = "L" -> {<<200>>}
      [] mode = "LA" -> {<<200, a>> : a \in Alphas}
      [] mode = "P" -> {<<1>>}
      [] mode = "PA" -> {<<1, a>> : a \in Alphas}

\* Images of every mode and pixel, of small sizes.
SmallImages ==
    UNION {{Image(m, w, h, px) : w \in 1..SmallDim, h \in 1..SmallDim, px \in Pixels(m)} :
           m \in Modes}

\* Opaque images of every size up to MaxWidth x MaxHeight.
WideImages ==
    {Image("RGB", w, h, <<10, 20, 30>>) : w \in 1..MaxWidth, h \in 1..MaxHeight}

\* The values of max_width: negative, zero, below and above every width,
\* and the default.
MaxWidths == (-1..(MaxWidth + 1)) \cup {DefaultMaxWidth}

\* Crop boxes (left, top, right, bottom) in halves of a pixel: inside the
\* image, with fractions, beyond it, empty, and with its sides swapped.
UnitBox == <<0, 0, 2, 2>>
Boxes ==
    {UnitBox, <<1, 1, 5, 3>>, <<-4, -4, -2, -2>>, <<2, 0, 2, 2>>,
     <<4, 0, 2, 2>>, <<0, 4, 2, 2>>}

Uploads(images) == {ValidUpload(i) : i \in images}

Request(endpoint, ct, upload, max_width, box) ==
    [endpoint |-> endpoint, content_type |-> ct, upload |-> upload,
     max_width |-> max_width, quality |-> DefaultQuality, box |-> box]

Endpoints == {"/resize", "/crop-square", "/crop"}

RejectedTypes ==
    {NoContentType, ContentType(TextPlain), ContentType(ImageNoSlash),
     ContentType(TextImage)}

\* The requests of SpecOne, which handles one request at a time.
WideReqs ==
    {Request("/resize", ContentType(ImagePng), u, mw, UnitBox) :
        u \in Uploads(WideImages), mw \in MaxWidths}
    \cup {Request("/crop-square", ContentType(ImagePng), u, DefaultMaxWidth, UnitBox) :
        u \in Uploads(WideImages)}
    \cup {Request(e, ContentType(ImagePng), u, DefaultMaxWidth, UnitBox) :
        e \in Endpoints, u \in Uploads(SmallImages) \cup {CorruptUpload}}
    \cup {Request("/resize", ContentType(ImagePng), CorruptUpload, mw, UnitBox) :
        mw \in -1..1}
    \cup {Request("/crop", ContentType(ImagePng), u, DefaultMaxWidth, b) :
        u \in Uploads({i \in SmallImages : i.mode = "RGB"}), b \in Boxes}
    \cup {Request(e, ct, u, DefaultMaxWidth, UnitBox) :
        e \in Endpoints, ct \in RejectedTypes,
        u \in {CorruptUpload, ValidUpload(Image("RGB", 2, 1, <<10, 20, 30>>))}}

\* The requests of Spec, which handles NumReqs requests concurrently.
ConcUploads ==
    {CorruptUpload, ValidUpload(Image("RGB", 2, 1, <<10, 20, 30>>)),
     ValidUpload(Image("RGBA", 1, 2, <<10, 20, 30, 128>>))}

ConcReqs ==
    {Request("/resize", ContentType(ImagePng), u, mw, UnitBox) :
        u \in ConcUploads, mw \in {0, DefaultMaxWidth}}
    \cup {Request("/crop-square", ContentType(ImagePng), u, DefaultMaxWidth, UnitBox) :
        u \in ConcUploads}
    \cup {Request("/crop", ContentType(ImagePng), u, DefaultMaxWidth, b) :
        u \in ConcUploads, b \in {UnitBox, <<4, 0, 2, 2>>}}
    \cup {Request(e, ct, CorruptUpload, DefaultMaxWidth, UnitBox) :
        e \in Endpoints, ct \in {NoContentType, ContentType(TextPlain)}}

(***************************************************************************)
(* Specifications.                                                         *)
(***************************************************************************)
Next ==
    \E r \in Reqs :
        \/ \E q \in ConcReqs : Arrive(r, q)
        \/ resize_image(r)
        \/ resize_image_resume(r)
        \/ crop_square(r)
        \/ crop_square_resume(r)
        \/ crop(r)
        \/ crop_resume(r)

\* NumReqs requests handled concurrently, in every interleaving.
Spec == Init /\ [][Next]_vars

NextOne ==
    \/ \E q \in WideReqs : Arrive(1, q)
    \/ resize_image(1)
    \/ resize_image_resume(1)
    \/ crop_square(1)
    \/ crop_square_resume(1)
    \/ crop(1)
    \/ crop_resume(1)

\* One request, over the wide range of images and parameters.
SpecOne == Init /\ [][NextOne]_vars

(***************************************************************************)
(* Vocabulary of the properties.                                           *)
(***************************************************************************)
Has(s, x) == \E i \in DOMAIN s : s[i] = x
Count(s, x) == Cardinality({i \in DOMAIN s : s[i] = x})
Before(s, x, y) == \E i, j \in DOMAIN s : i < j /\ s[i] = x /\ s[j] = y

Done(r) == pc[r] = "done"
Q(r) == req[r][1]
\* The upload's declared content type is missing or does not start with "image/".
NotAnImageType(ct) == ct.isNone \/ ~startswith(ct.text, ImagePrefix)
\* The steps of the processing.
Steps == {"read", "decode", "flatten", "transform", "encode"}
\* Decode, flatten, transform and encode all ran and none raised.
Succeeded(r) == Has(ev[r], "encode") /\ ~Has(ev[r], "raise")
\* The colour modes with an alpha channel.
HasAlpha(mode) == mode \in {"LA", "PA", "RGBA"}
\* round(n / d) for n, d >= 1, halves rounded up.
Rounded(n, d) == (2 * n + d) \div (2 * d)
Logged(msg) == \E i \in DOMAIN log : log[i].msg = msg

\* C1: on each endpoint a request whose content type is missing or does not
\* start with "image/" ends with 400 "File must be an image", and neither
\* the read of the upload nor any decode, flatten, transform or encode step
\* has run for it, then or before.
C1_RejectedBeforeRead ==
    \A r \in Reqs :
        (req[r] # <<>> /\ NotAnImageType(Q(r).content_type)) =>
            /\ \A s \in Steps : ~Has(ev[r], s)
            /\ run[r] = NoRun
            /\ Done(r) =>
                /\ Len(resp[r]) = 1
                /\ resp[r][1].status = 400
                /\ resp[r][1].detail = "File must be an image"
                /\ resp[r][1].content = <<>>

\* C1 witness: a request with a content type that only resembles an image
\* type ("image", no slash) was rejected.
C1_Witness ==
    \E r \in Reqs :
        /\ Done(r)
        /\ Q(r).content_type = ContentType(ImageNoSlash)
        /\ resp[r][1].status = 400

\* C2: on each endpoint, when the content type is accepted and decode,
\* flatten, transform and encode all succeed, the response is 200, its body
\* the encoded bytes and its media type "image/webp".
C2_SuccessIsWebp ==
    \A r \in Reqs :
        (Done(r) /\ Succeeded(r)) =>
            /\ Len(resp[r]) = 1
            /\ resp[r][1].status = 200
            /\ resp[r][1].content = run[r].encoded
            /\ Len(resp[r][1].content) = 1
            /\ resp[r][1].media_type = "image/webp"

\* C3: on each endpoint, when decode, flatten, transform or encode raises,
\* the response is 400 with the exception's message, and the failure is
\* logged before the response.
C3_FailureIs400Logged ==
    \A r \in Reqs :
        (Done(r) /\ Has(ev[r], "raise")) =>
            /\ Len(resp[r]) = 1
            /\ resp[r][1].status = 400
            /\ resp[r][1].detail = run[r].exc[1]
            /\ Before(ev[r], "log", "respond")
            /\ Logged(run[r].exc[1])

\* The resize of request r produced an image.
Resized(r) == Done(r) /\ Q(r).endpoint = "/resize" /\ run[r].out # <<>>
InW(r) == Q(r).upload.img.w
InH(r) == Q(r).upload.img.h
OutW(r) == run[r].out[1].w
OutH(r) == run[r].out[1].h

C5_NeverUpscales ==
    \A r \in Reqs :
        (Done(r) /\ Q(r).endpoint = "/resize" /\ Q(r).upload.valid
         /\ Accepted(Q(r).content_type)) =>
            /\ run[r].out # <<>> => OutW(r) = Min(Q(r).max_width, InW(r))
            /\ InW(r) <= Q(r).max_width =>
                /\ run[r].out # <<>>
                /\ OutW(r) = InW(r)
                /\ OutH(r) = InH(r)

\* C6: the square crop takes the box (left, top, left + s, top + s) with
\* s = min(w, h), left = floor((w - s) / 2), top = floor((h - s) / 2); the
\* box lies inside the image and the output is s by s.
C6_CentredSquare ==
    \A r \in Reqs :
        (Done(r) /\ Q(r).endpoint = "/crop-square" /\ run[r].handed # <<>>) =>
            LET w == InW(r)
                h == InH(r)
                s == IF w <= h THEN w ELSE h
                b == run[r].box[1]
            IN /\ Len(run[r].box) = 1
               /\ b[1] = (w - s) \div 2
               /\ b[2] = (h - s) \div 2
               /\ b[3] = b[1] + s
               /\ b[4] = b[2] + s
               /\ 0 <= b[1] /\ b[3] <= w
               /\ 0 <= b[2] /\ b[4] <= h
               /\ Len(run[r].out) = 1
               /\ OutW(r) = s
               /\ OutH(r) = s

\* C6 witness: a square crop of an image three pixels wider than high, where
\* the floor of the halved margin matters.
C6_Witness ==
    \E r \in Reqs :
        /\ Done(r)
        /\ Q(r).endpoint = "/crop-square"
        /\ InW(r) = InH(r) + 3
        /\ run[r].out # <<>>
        /\ OutW(r) = InH(r)

\* C7: the flattening gives every image whose mode has an alpha channel as
\* an RGB image of the same size, and every other image unchanged, so the
\* image handed to the transform has no alpha channel.
C7_NoAlphaHanded ==
    \A r \in Reqs :
        run[r].handed # <<>> =>
            LET before == Q(r).upload.img
                after == run[r].handed[1]
            IN /\ ~HasAlpha(after.mode)
               /\ HasAlpha(before.mode) =>
                    /\ after.mode = "RGB"
                    /\ after.w = before.w
                    /\ after.h = before.h
               /\ ~HasAlpha(before.mode) => after = before

\* C8: flattening is idempotent: flattening the flattened image again
\* gives it back, mode, size and pixels.
C8_FlattenIdempotent ==
    \A r \in Reqs :
        run[r].handed # <<>> => Flatten(run[r].handed[1]) = run[r].handed[1]

\* C8 witness: a half transparent RGBA image was flattened to an RGB image
\* of other pixels.
C8_Witness ==
    \E r \in Reqs :
        /\ run[r].handed # <<>>
        /\ Q(r).upload.img.mode = "RGBA"
        /\ Q(r).upload.img.px[4] = 128
        /\ run[r].handed[1].mode = "RGB"
        /\ run[r].handed[1].px # SubSeq(Q(r).upload.img.px, 1, 3)

\* C9: a /resize request with an accepted content type and max_width <= 0
\* never ends with 200; for a valid image it ends with 400 carrying the
\* failure's message, and the failure is logged.
C9_NonPositiveWidthFails ==
    \A r \in Reqs :
        (Done(r) /\ Q(r).endpoint = "/resize" /\ Accepted(Q(r).content_type)
         /\ Q(r).max_width <= 0) =>
            /\ Len(resp[r]) = 1
            /\ resp[r][1].status # 200
            /\ Q(r).upload.valid =>
                /\ resp[r][1].status = 400
                /\ run[r].exc # <<>>
                /\ resp[r][1].detail = run[r].exc[1]
                /\ Has(ev[r], "log")
                /\ Logged(run[r].exc[1])

\* C9 witness: a valid image resized with a negative max_width was answered 400.
C9_Witness ==
    \E r \in Reqs :
        /\ Done(r)
        /\ Q(r).endpoint = "/resize"
        /\ Q(r).upload.valid
        /\ Q(r).max_width < 0
        /\ resp[r][1].status = 400
        /\ Has(ev[r], "transform")

\* The response a request gets when handled alone: a function of the
\* request only.
Outcome(q) ==
    IF NotAnImageType(q.content_type)
    THEN HTTPException(400, "File must be an image")
    ELSE LET res == CASE q.endpoint = "/resize" ->
                        resize_in_memory(q.upload, q.max_width, q.quality, "WEBP")
                      [] q.endpoint = "/crop-square" ->
                        crop_square_try(q.upload, q.quality)
                      [] q.endpoint = "/crop" ->
                        crop_try(q.upload, q.box, q.quality)
         IN IF ~res.ok THEN HTTPException(400, res.detail)
            ELSE IF q.endpoint = "/crop" THEN NoneResponse
            ELSE Response(res.run.encoded[1], "image/webp")

\* What C10 says of every request but the number of reads: one attempt at
\* most, no response before the end and one at the end, 200 or 400, which
\* is the response the request gets alone.
OneAttemptOneResponse(r) ==
    /\ Count(ev[r], "decode") <= 1
    /\ ~Done(r) => resp[r] = <<>>
    /\ Done(r) =>
        /\ Len(resp[r]) = 1
        /\ resp[r][1].status \in {200, 400}
        /\ resp[r][1] = Outcome(Q(r))

\* C10 as stated: under every interleaving each request reads its upload
\* exactly once, makes one attempt, and ends with exactly one response,
\* 200 or 400, decided by its own upload and parameters alone.
C10_ReadExactlyOnce ==
    \A r \in Reqs :
        /\ OneAttemptOneResponse(r)
        /\ Count(ev[r], "read") <= 1
        /\ Done(r) => Count(ev[r], "read") = 1

\* C10 as amended: the same, the upload being read exactly once by a
\* request whose content type is accepted and never by one that is rejected.
C10_ReadAtMostOnce ==
    \A r \in Reqs :
        /\ OneAttemptOneResponse(r)
        /\ Count(ev[r], "read") <= 1
        /\ Done(r) =>
            Count(ev[r], "read") = IF Accepted(Q(r).content_type) THEN 1 ELSE 0

\* C10 witness: two requests handled together, one that failed and was
\* logged and one that succeeded, both answered.
C10_Witness ==
    \E r1, r2 \in Reqs :
        /\ r1 # r2
        /\ Done(r1) /\ resp[r1][1].status = 400 /\ Has(ev[r1], "raise")
        /\ Done(r2) /\ resp[r2][1].status = 200 /\ Succeeded(r2)
        /\ log # <<>>
====
